---- MODULE Spec2Model ----
(***************************************************************************)
(* A model of genericalc (src/main.rs): expression values built from       *)
(* Const, Symbol, DAdd and DMul, with their Eval, Derive, Display and      *)
(* Clone implementations.                                                  *)
(*                                                                         *)
(* Every struct value occupies one cell of `heap`; a cell's index is the   *)
(* value's identity.  A composite cell holds the indices of the two        *)
(* operand values it owns.  Cells are only ever appended: Rust never       *)
(* writes through the shared references (&self) the traits take.           *)
(*                                                                         *)
(* The caller starts with two Symbol values to differentiate by and one    *)
(* expression.  It then differentiates values it owns (`roots`), and, as   *)
(* main does with func and ddx, evaluates its values against an Inputs or  *)
(* renders them.  `out` is what the last step returned; `derived`          *)
(* remembers every deriv call made.                                        *)
(*                                                                         *)
(* f64 values are modelled by integers.  All numbers that occur (small     *)
(* constants, small bindings, sums and products of a few of them) are      *)
(* integers far below 2^53, on which f64 addition and multiplication are   *)
(* exact.                                                                  *)
(***************************************************************************)
EXTENDS Integers, Sequences, FiniteSets, TLC

VARIABLES heap, roots, derived, out

vars == <<heap, roots, derived, out>>

(* ------------------------------ bounds -------------------------------- *)

\* The caller's expressions have at most this many cells (main's has 7 and
\* is always among them).
MaxSize == 5

\* Number of deriv calls in one run.
MaxDerivs == 2

\* Names a Symbol may carry.
Names == {"x", "y"}

\* Values a Const literal of a caller's expression may carry.
ConstVals == {2}

\* The value an Inputs map binds a name to, when it binds it.
Binding == [x |-> 2, y |-> 3]

\* Every Inputs value: a map from some of the names to their values.
AllInputs == {[n \in S |-> Binding[n]] : S \in SUBSET Names}

(* --------------------------- expression cells ------------------------- *)

Symbol(name) == [kind |-> "Symbol", name |-> name]

Const(val) == [kind |-> "Const", val |-> val]

DAdd(lhs, rhs) == [kind |-> "DAdd", lhs |-> lhs, rhs |-> rhs]

DMul(lhs, rhs) == [kind |-> "DMul", lhs |-> lhs, rhs |-> rhs]

\* A new value: a fresh cell at the end of the heap.
Alloc(h, node) == [h |-> Append(h, node), id |-> Len(h) + 1]

(* ------------------------------- Clone -------------------------------- *)

RECURSIVE clone(_, _)
\* #[derive(Clone)]: a new value whose fields are clones of the fields.
clone(h, id) ==
    LET n == h[id] IN
    IF n.kind \in {"Symbol", "Const"}
    THEN Alloc(h, n)
    ELSE LET l == clone(h, n.lhs)
             r == clone(l.h, n.rhs)
         IN  Alloc(r.h, [kind |-> n.kind, lhs |-> l.id, rhs |-> r.id])

(* ------------------------------ Display ------------------------------- *)

Digit(d) == <<"0", "1", "2", "3", "4", "5", "6", "7", "8", "9">>[d + 1]

RECURSIVE FmtNat(_)
FmtNat(n) == IF n < 10 THEN Digit(n) ELSE FmtNat(n \div 10) \o Digit(n % 10)

\* Display for f64 on an integral value: the decimal digits, no fraction part.
FmtF64(v) == IF v < 0 THEN "-" \o FmtNat(0 - v) ELSE FmtNat(v)

RECURSIVE fmt(_, _)
FmtSymbol(h, id) == h[id].name

FmtConst(h, id) == FmtF64(h[id].val)

\* A Display for DAdd that leaves out the parentheses.
FmtDAddBare(h, id) == fmt(h, h[id].lhs) \o " + " \o fmt(h, h[id].rhs)

FmtDAdd(h, id) == "(" \o fmt(h, h[id].lhs) \o " + " \o fmt(h, h[id].rhs) \o ")"

FmtDMul(h, id) == "(" \o fmt(h, h[id].lhs) \o " * " \o fmt(h, h[id].rhs) \o ")"

fmt(h, id) ==
    CASE h[id].kind = "Symbol" -> FmtSymbol(h, id)
      [] h[id].kind = "Const"  -> FmtConst(h, id)
      [] h[id].kind = "DAdd"   -> FmtDAdd(h, id)
      [] h[id].kind = "DMul"   -> FmtDMul(h, id)

\* #[derive(Debug)] for Symbol, as used by the panic message.
DebugSymbol(h, id) == "Symbol { name: \"" \o h[id].name \o "\" }"

(* -------------------------------- Eval -------------------------------- *)

\* A call that returned v.
Ok(v) == [ok |-> TRUE, val |-> v]

\* A call that unwound with a panic carrying msg.
Panic(msg) == [ok |-> FALSE, panic |-> msg]

RECURSIVE eval(_, _, _)
EvalConst(h, id, inputs) == Ok(h[id].val)

EvalSymbol(h, id, inputs) ==
    IF h[id].name \in DOMAIN inputs
    THEN Ok(inputs[h[id].name])
    ELSE Panic("Couldn't find symbol " \o DebugSymbol(h, id))

\* An eval for DAdd that evaluates the right operand first.
EvalDAddRightFirst(h, id, inputs) ==
    LET r == eval(h, h[id].rhs, inputs) IN
    IF ~r.ok THEN r
    ELSE LET l == eval(h, h[id].lhs, inputs) IN
         IF ~l.ok THEN l ELSE Ok(l.val + r.val)

EvalDAdd(h, id, inputs) ==
    LET l == eval(h, h[id].lhs, inputs) IN
    IF ~l.ok THEN l
    ELSE LET r == eval(h, h[id].rhs, inputs) IN
         IF ~r.ok THEN r ELSE Ok(l.val + r.val)

\* An eval for DMul that adds, as DAdd does.
EvalDMulAdds(h, id, inputs) ==
    LET l == eval(h, h[id].lhs, inputs) IN
    IF ~l.ok THEN l
    ELSE LET r == eval(h, h[id].rhs, inputs) IN
         IF ~r.ok THEN r ELSE Ok(l.val + r.val)

EvalDMul(h, id, inputs) ==
    LET l == eval(h, h[id].lhs, inputs) IN
    IF ~l.ok THEN l
    ELSE LET r == eval(h, h[id].rhs, inputs) IN
         IF ~r.ok THEN r ELSE Ok(l.val * r.val)

eval(h, id, inputs) ==
    CASE h[id].kind = "Symbol" -> EvalSymbol(h, id, inputs)
      [] h[id].kind = "Const"  -> EvalConst(h, id, inputs)
      [] h[id].kind = "DAdd"   -> EvalDAdd(h, id, inputs)
      [] h[id].kind = "DMul"   -> EvalDMul(h, id, inputs)

(* ------------------------------- Derive ------------------------------- *)

\* #[derive(PartialEq)] for Symbol: the names are compared.
SymbolEq(h, a, b) == h[a].name = h[b].name

RECURSIVE deriv(_, _, _)
DerivConst(h, id, vs) == Alloc(h, Const(0))

\* A deriv for Symbol that compares the two values' cells, not their names.
DerivSymbolByIdentity(h, id, vs) == Alloc(h, Const(IF vs = id THEN 1 ELSE 0))

\* A deriv for Symbol that gives up on a Symbol other than the target.
DerivSymbolFails(h, id, vs) ==
    IF SymbolEq(h, vs, id) THEN Alloc(h, Const(1)) ELSE [h |-> h, id |-> 0]

DerivSymbol(h, id, vs) == Alloc(h, Const(IF SymbolEq(h, vs, id) THEN 1 ELSE 0))

\* A deriv for DAdd that drops a right operand whose derivative is Const 0.
DerivDAddSimplifies(h, id, vs) ==
    LET l == deriv(h, h[id].lhs, vs)
        r == deriv(l.h, h[id].rhs, vs)
    IN  IF r.h[r.id] = Const(0) THEN [h |-> r.h, id |-> l.id]
        ELSE Alloc(r.h, DAdd(l.id, r.id))

\* A deriv for DAdd written as the one for DMul is.
DerivDAddKeepsOperands(h, id, vs) ==
    LET d_l == deriv(h, h[id].lhs, vs)
        d_r == deriv(d_l.h, h[id].rhs, vs)
        cl  == clone(d_r.h, h[id].lhs)
        m1  == Alloc(cl.h, DMul(cl.id, d_r.id))
        cr  == clone(m1.h, h[id].rhs)
        m2  == Alloc(cr.h, DMul(d_l.id, cr.id))
    IN  Alloc(m2.h, DAdd(m1.id, m2.id))

DerivDAdd(h, id, vs) ==
    LET l == deriv(h, h[id].lhs, vs)
        r == deriv(l.h, h[id].rhs, vs)
    IN  Alloc(r.h, DAdd(l.id, r.id))

\* A deriv for DMul that multiplies the operands' derivatives.
DerivDMulNaive(h, id, vs) ==
    LET d_l == deriv(h, h[id].lhs, vs)
        d_r == deriv(d_l.h, h[id].rhs, vs)
    IN  Alloc(d_r.h, DMul(d_l.id, d_r.id))

\* A deriv for DMul with the two products' operands in the other order.
DerivDMulSwapped(h, id, vs) ==
    LET d_l == deriv(h, h[id].lhs, vs)
        d_r == deriv(d_l.h, h[id].rhs, vs)
        cl  == clone(d_r.h, h[id].lhs)
        m1  == Alloc(cl.h, DMul(d_r.id, cl.id))
        cr  == clone(m1.h, h[id].rhs)
        m2  == Alloc(cr.h, DMul(cr.id, d_l.id))
    IN  Alloc(m2.h, DAdd(m1.id, m2.id))

\* A deriv for DMul that puts the operands themselves, not clones of them,
\* into the result.
DerivDMulAliases(h, id, vs) ==
    LET d_l == deriv(h, h[id].lhs, vs)
        d_r == deriv(d_l.h, h[id].rhs, vs)
        m1  == Alloc(d_r.h, DMul(h[id].lhs, d_r.id))
        m2  == Alloc(m1.h, DMul(d_l.id, h[id].rhs))
    IN  Alloc(m2.h, DAdd(m1.id, m2.id))

DerivDMul(h, id, vs) ==
    LET d_l == deriv(h, h[id].lhs, vs)
        d_r == deriv(d_l.h, h[id].rhs, vs)
        cl  == clone(d_r.h, h[id].lhs)
        m1  == Alloc(cl.h, DMul(cl.id, d_r.id))
        cr  == clone(m1.h, h[id].rhs)
        m2  == Alloc(cr.h, DMul(d_l.id, cr.id))
    IN  Alloc(m2.h, DAdd(m1.id, m2.id))

deriv(h, id, vs) ==
    CASE h[id].kind = "Symbol" -> DerivSymbol(h, id, vs)
      [] h[id].kind = "Const"  -> DerivConst(h, id, vs)
      [] h[id].kind = "DAdd"   -> DerivDAdd(h, id, vs)
      [] h[id].kind = "DMul"   -> DerivDMul(h, id, vs)

(* --------------------------- the caller's steps ----------------------- *)

RECURSIVE Build(_, _)
\* A nested struct literal: the operands are built first, then the value itself.
Build(h, e) ==
    IF e.kind \in {"Symbol", "Const"}
    THEN Alloc(h, e)
    ELSE LET l == Build(h, e.lhs)
             r == Build(l.h, e.rhs)
         IN  Alloc(r.h, [kind |-> e.kind, lhs |-> l.id, rhs |-> r.id])

\* The expression main builds: ((x + 1) * (x + 1)).
MainFunc == DMul(DAdd(Symbol("x"), Const(1)), DAdd(Symbol("x"), Const(1)))

Leaves == {Symbol(n) : n \in Names} \cup {Const(v) : v \in ConstVals}

Compose(A, B) ==
    {DAdd(a, b) : a \in A, b \in B} \cup {DMul(a, b) : a \in A, b \in B}

RECURSIVE ExprsOfSize(_)
\* The expressions of exactly n cells: a leaf, or an operator cell over two
\* expressions that share the other n - 1 cells.
ExprsOfSize(n) ==
    IF n = 1 THEN Leaves
    ELSE UNION {Compose(ExprsOfSize(i), ExprsOfSize(n - 1 - i)) : i \in 1..(n - 2)}

\* What a caller starts from: main's expression, or any small expression.
Exprs == {MainFunc} \cup UNION {ExprsOfSize(n) : n \in 1..MaxSize}

\* The Symbol values a caller differentiates by: cell 1 is x, cell 2 is y.
TargetHeap == <<Symbol("x"), Symbol("y")>>

Targets == DOMAIN TargetHeap

\* The state once the caller has built its Symbols and its expression.
Init ==
    \E e \in Exprs :
        LET b == Build(TargetHeap, e) IN
        /\ heap = b.h
        /\ roots = {b.id}
        /\ derived = {}
        /\ out = [op |-> "new", res |-> b.id]

\* let ddx = r.deriv(&t);
DerivStep(r, t) ==
    /\ Cardinality(derived) < MaxDerivs
    /\ LET d == deriv(heap, r, t) IN
       /\ heap' = d.h
       /\ roots' = roots \cup {d.id}
       /\ derived' = derived \cup {[src |-> r, vs |-> t, res |-> d.id]}
       /\ out' = [op |-> "deriv", src |-> r, vs |-> t, res |-> d.id]

\* r.eval(&inputs), for each value r the caller owns.
EvalStep(inputs) ==
    /\ out' = [op |-> "eval", inputs |-> inputs,
               res |-> [r \in roots |-> eval(heap, r, inputs)]]
    /\ UNCHANGED <<heap, roots, derived>>

\* println!("{}", r), for each value r the caller owns.
FmtStep ==
    /\ out' = [op |-> "fmt", text |-> [r \in roots |-> fmt(heap, r)]]
    /\ UNCHANGED <<heap, roots, derived>>

Next ==
    \/ \E r \in roots, t \in Targets : DerivStep(r, t)
    \/ \E inputs \in AllInputs : EvalStep(inputs)
    \/ FmtStep

Spec == Init /\ [][Next]_vars

(* ------------------- reading the heap, for the properties -------------- *)

RECURSIVE Tree(_, _)
\* The value at id written out as a nested expression, cell indices forgotten.
Tree(h, id) ==
    IF h[id].kind \in {"Symbol", "Const"} THEN h[id]
    ELSE [kind |-> h[id].kind, lhs |-> Tree(h, h[id].lhs), rhs |-> Tree(h, h[id].rhs)]

RECURSIVE Cells(_, _)
\* The cells that make up the value at id.
Cells(h, id) ==
    IF h[id].kind \in {"Symbol", "Const"} THEN {id}
    ELSE {id} \cup Cells(h, h[id].lhs) \cup Cells(h, h[id].rhs)

RECURSIVE LeafNames(_)
\* The names of the Symbol leaves of an expression, left to right.
LeafNames(e) ==
    CASE e.kind = "Symbol" -> <<e.name>>
      [] e.kind = "Const"  -> <<>>
      [] OTHER             -> LeafNames(e.lhs) \o LeafNames(e.rhs)

VarsOf(e) == {LeafNames(e)[i] : i \in DOMAIN LeafNames(e)}

RECURSIVE HasMul(_)
HasMul(e) ==
    CASE e.kind \in {"Symbol", "Const"} -> FALSE
      [] e.kind = "DMul"                -> TRUE
      [] OTHER                          -> HasMul(e.lhs) \/ HasMul(e.rhs)

\* The names of the Symbol leaves that inputs does not bind, left to right.
Unbound(e, inputs) == SelectSeq(LeafNames(e), LAMBDA n : n \notin DOMAIN inputs)

\* The last call was a deriv call.
IsDeriv == out.op = "deriv"

\* The deriv calls that returned the value id, given the expression e and the name n.
DerivOf(id, e, n) ==
    {d \in derived : d.res = id /\ Tree(heap, d.src) = e /\ heap[d.vs].name = n}


(* ------------------------------ properties ---------------------------- *)

\* The derivatives by x of main's expression among the values just rendered.
C1_Rendered ==
    IF out.op = "fmt"
    THEN {r \in DOMAIN out.text : DerivOf(r, MainFunc, "x") # {}}
    ELSE {}

\* C1, as stated: the derivative by x of ((x + 1) * (x + 1)) renders as
\* "(((x + 1) * 1) + (1 * (x + 1)))".
C1_AsStated ==
    \A r \in C1_Rendered : out.text[r] = "(((x + 1) * 1) + (1 * (x + 1)))"

\* C1, amended: the derivative by x of ((x + 1) * (x + 1)) renders as
\* "(((x + 1) * (1 + 0)) + ((1 + 0) * (x + 1)))": the derivative (1 + 0) of
\* each operand (x + 1) is kept as the sum rule produced it.
C1_DerivativeRendering ==
    \A r \in C1_Rendered :
        out.text[r] = "(((x + 1) * (1 + 0)) + ((1 + 0) * (x + 1)))"

C1_Witness == C1_Rendered # {}

\* The last step evaluated the caller's values with x bound to 2.
C2_AtTwo == out.op = "eval" /\ "x" \in DOMAIN out.inputs /\ out.inputs["x"] = 2

\* C2: with x bound to 2, main's expression ((x + 1) * (x + 1)) evaluates to 9
\* and its derivative by x evaluates to 6.
C2_MainValues ==
    C2_AtTwo =>
        \A r \in DOMAIN out.res :
            /\ Tree(heap, r) = MainFunc => out.res[r] = Ok(9)
            /\ DerivOf(r, MainFunc, "x") # {} => out.res[r] = Ok(6)

\* main's expression and its derivative by x were evaluated together.
C2_Witness ==
    /\ C2_AtTwo
    /\ \E f \in DOMAIN out.res, df \in DOMAIN out.res :
        /\ Tree(heap, f) = MainFunc
        /\ out.res[f] = Ok(9)
        /\ DerivOf(df, MainFunc, "x") # {}
        /\ out.res[df] = Ok(6)

\* The message of the panic that names the Symbol called n.
C3_Message(n) == "Couldn't find symbol Symbol { name: \"" \o n \o "\" }"

\* C3: eval of an expression with a Symbol leaf that inputs does not bind
\* returns no number: it panics, and the panic names the leftmost such leaf;
\* eval of an expression whose Symbol leaves are all bound returns a number.
C3_UnboundPanics ==
    out.op = "eval" =>
        \A r \in DOMAIN out.res :
            LET u == Unbound(Tree(heap, r), out.inputs) IN
            IF u = <<>>
            THEN out.res[r].ok /\ DOMAIN out.res[r] = {"ok", "val"}
            ELSE /\ ~out.res[r].ok
                 /\ DOMAIN out.res[r] = {"ok", "panic"}
                 /\ out.res[r].panic = C3_Message(u[1])

\* eval panicked on an expression in which two different names are unbound.
C3_Witness ==
    /\ out.op = "eval"
    /\ \E r \in DOMAIN out.res :
        /\ ~out.res[r].ok
        /\ LET u == Unbound(Tree(heap, r), out.inputs) IN
           \E i \in DOMAIN u : u[i] # u[1]

\* What every step keeps: each value the caller owns is still owned, is the
\* same expression, renders the same and evaluates the same under every
\* inputs; and no value deriv returned has a cell in common with the value it
\* was called on.
C4_StepKeeps ==
    \/ UNCHANGED <<heap, roots, derived>>
    \/ /\ roots \subseteq roots'
       /\ \A r \in roots :
           /\ Tree(heap', r) = Tree(heap, r)
           /\ fmt(heap', r) = fmt(heap, r)
           /\ \A inputs \in AllInputs : eval(heap', r, inputs) = eval(heap, r, inputs)
       /\ \A d \in derived' : Cells(heap', d.res) \cap Cells(heap', d.src) = {}

\* C4: non-mutation: whatever deriv calls are made, on an expression or on
\* the derivatives obtained from it, every expression stays as it was (same
\* structure, same rendering, same value under every inputs), and a derivative
\* shares no cell with the expression it was derived from.
C4_NonMutation == [][C4_StepKeeps]_vars

\* A derivative of a product has itself been differentiated.
C4_Witness ==
    \E d1 \in derived, d2 \in derived :
        d2.src = d1.res /\ heap[d1.src].kind = "DMul"

\* C5: product rule, evaluated: under every inputs, the derivative of a
\* product A * B evaluates to A * dB + dA * B, where dA and dB are the values
\* deriv returns for A and for B; it panics exactly when A or B does.
C5_ProductRuleValue ==
    (IsDeriv /\ heap[out.src].kind = "DMul") =>
        LET A  == heap[out.src].lhs
            B  == heap[out.src].rhs
            dA == deriv(heap, A, out.vs)
            dB == deriv(heap, B, out.vs)
        IN  \A inputs \in AllInputs :
                LET a  == eval(heap, A, inputs)
                    b  == eval(heap, B, inputs)
                    da == eval(dA.h, dA.id, inputs)
                    db == eval(dB.h, dB.id, inputs)
                    v  == eval(heap, out.res, inputs)
                IN  IF a.ok /\ b.ok
                    THEN da.ok /\ db.ok /\ v = Ok(a.val * db.val + da.val * b.val)
                    ELSE ~v.ok

\* A product of two different operands that both contain the target was
\* differentiated.
C5_Witness ==
    /\ IsDeriv
    /\ heap[out.src].kind = "DMul"
    /\ Tree(heap, heap[out.src].lhs) # Tree(heap, heap[out.src].rhs)
    /\ heap[out.vs].name \in VarsOf(Tree(heap, heap[out.src].lhs))
    /\ heap[out.vs].name \in VarsOf(Tree(heap, heap[out.src].rhs))

RECURSIVE WellFormed(_, _)
\* id is a cell of h holding an expression whose operands are older cells.
WellFormed(h, id) ==
    /\ id \in DOMAIN h
    /\ h[id].kind \in {"Symbol", "Const", "DAdd", "DMul"}
    /\ h[id].kind \in {"DAdd", "DMul"} =>
        /\ h[id].lhs \in 1..(id - 1) /\ WellFormed(h, h[id].lhs)
        /\ h[id].rhs \in 1..(id - 1) /\ WellFormed(h, h[id].rhs)

\* C6: deriv is total: it can be called on every value and every target
\* Symbol, whether or not the target occurs in the value and whether or not
\* any inputs binds the value's names, and it returns an expression, never a
\* failure.
C6_DerivTotal ==
    /\ \A d \in derived : WellFormed(heap, d.res) /\ d.res \in roots
    /\ \A r \in roots, t \in Targets :
        LET d == deriv(heap, r, t) IN WellFormed(d.h, d.id)

\* deriv returned for an expression that has Symbol leaves, none of them the
\* target.
C6_Witness ==
    /\ IsDeriv
    /\ VarsOf(Tree(heap, out.src)) # {}
    /\ heap[out.vs].name \notin VarsOf(Tree(heap, out.src))

\* C7: product rule, structure: the derivative of DMul(L, R) is the expression
\* DAdd(DMul(L, dR), DMul(dL, R)), with dL and dR what deriv returns for L and
\* for R: the operand itself is on the left of the first product and on the
\* right of the second.
C7_ProductRuleShape ==
    (IsDeriv /\ heap[out.src].kind = "DMul") =>
        LET L  == heap[out.src].lhs
            R  == heap[out.src].rhs
            dL == deriv(heap, L, out.vs)
            dR == deriv(heap, R, out.vs)
        IN  Tree(heap, out.res) =
                DAdd(DMul(Tree(heap, L), Tree(dR.h, dR.id)),
                     DMul(Tree(dL.h, dL.id), Tree(heap, R)))

\* A product whose operands differ, and whose operands' derivatives differ,
\* was differentiated.
C7_Witness ==
    /\ IsDeriv
    /\ heap[out.src].kind = "DMul"
    /\ LET L == heap[out.src].lhs
           R == heap[out.src].rhs
           dL == deriv(heap, L, out.vs)
           dR == deriv(heap, R, out.vs)
       IN  /\ Tree(heap, L) # Tree(heap, R)
           /\ Tree(dL.h, dL.id) # Tree(dR.h, dR.id)

RECURSIVE Shape(_)
\* An expression with the names and numbers of its leaves forgotten.
Shape(e) ==
    IF e.kind \in {"Symbol", "Const"} THEN [kind |-> e.kind]
    ELSE [kind |-> e.kind, lhs |-> Shape(e.lhs), rhs |-> Shape(e.rhs)]

RECURSIVE ExpandedShape(_)
\* The sum and product rules expanded on a shape, nothing simplified.
ExpandedShape(s) ==
    CASE s.kind \in {"Symbol", "Const"} -> [kind |-> "Const"]
      [] s.kind = "DAdd" -> DAdd(ExpandedShape(s.lhs), ExpandedShape(s.rhs))
      [] s.kind = "DMul" -> DAdd(DMul(s.lhs, ExpandedShape(s.rhs)),
                                 DMul(ExpandedShape(s.lhs), s.rhs))

\* C8: sum rule, nothing simplified: the derivative of DAdd(L, R) is the
\* expression DAdd(dL, dR), both operands kept even when they are Const 0; and
\* the shape of any derivative is the rules' expansion of the shape of the
\* expression differentiated.
C8_SumRuleShape ==
    IsDeriv =>
        /\ heap[out.src].kind = "DAdd" =>
            LET dL == deriv(heap, heap[out.src].lhs, out.vs)
                dR == deriv(heap, heap[out.src].rhs, out.vs)
            IN  Tree(heap, out.res) = DAdd(Tree(dL.h, dL.id), Tree(dR.h, dR.id))
        /\ Shape(Tree(heap, out.res)) = ExpandedShape(Shape(Tree(heap, out.src)))

\* A sum was differentiated and an operand of the result is Const 0.
C8_Witness ==
    /\ IsDeriv
    /\ heap[out.src].kind = "DAdd"
    /\ heap[out.res].kind = "DAdd"
    /\ \/ heap[heap[out.res].lhs] = Const(0)
       \/ heap[heap[out.res].rhs] = Const(0)

\* C9: the derivative of a Symbol is Const 1 when its name is the target's
\* name and Const 0 otherwise, whichever cells hold the two Symbols; being a
\* Const, it evaluates to that number under every inputs, also under one that
\* binds no name.
C9_SymbolDerivative ==
    (IsDeriv /\ heap[out.src].kind = "Symbol") =>
        LET c == IF heap[out.src].name = heap[out.vs].name THEN 1 ELSE 0 IN
        /\ heap[out.res] = Const(c)
        /\ \A inputs \in AllInputs : eval(heap, out.res, inputs) = Ok(c)

\* A Symbol was differentiated by another Symbol value of the same name.
C9_Witness ==
    /\ IsDeriv
    /\ heap[out.src].kind = "Symbol"
    /\ out.src # out.vs
    /\ heap[out.src].name = heap[out.vs].name

\* C10: deriv introduces no name: the names in a derivative are among those
\* of the expression differentiated, and there are none when that expression
\* has no DMul; so whenever the expression evaluates under an inputs, its
\* derivative does too, and so on for derivatives of derivatives.
C10_NoNewNames ==
    IsDeriv =>
        LET e  == Tree(heap, out.src)
            de == Tree(heap, out.res)
        IN  /\ VarsOf(de) \subseteq VarsOf(e)
            /\ ~HasMul(e) => VarsOf(de) = {}
            /\ \A inputs \in AllInputs :
                   eval(heap, out.src, inputs).ok => eval(heap, out.res, inputs).ok

\* A derivative that still has names was differentiated again.
C10_Witness ==
    /\ IsDeriv
    /\ \E d \in derived : d.res = out.src
    /\ VarsOf(Tree(heap, out.src)) # {}
    /\ VarsOf(Tree(heap, out.res)) # {}

====
